---- MODULE Spec2Model ----
(***************************************************************************)
(* Model of src/families/ethereum/modules/compound.js (ledger-live-common) *)
(* : the Compound rate snapshot (preload / hydrate / getCTokenRate), the   *)
(* placeholder injection of prepareTokenAccounts and the merge performed   *)
(* by digestTokenAccounts, with its two batched asynchronous loops.        *)
(*                                                                         *)
(* Numbers.  Balances and operation values are integers (smallest units).  *)
(* A BigNumber that may be fractional (a rate, a product) is kept exactly  *)
(* as [m, e], the decimal m * 10^(-e): [m |-> 15, e |-> 1] is 1.5.         *)
(* Optional values (JS undefined / a missing key) are sequences of length  *)
(* at most one: <<>> is "absent", <<v>> is "v".                            *)
(***************************************************************************)
EXTENDS Integers, Sequences, FiniteSets, TLC

VARIABLES
    env,                    \* getEnv("COMPOUND")
    currency,               \* currency.id handed to prepare / digest
    subAccounts,            \* the account list the sync engine holds
    oracle,                 \* the historical exchange rates the Compound API holds
    compoundPreloadedValue, \* the module-level snapshot (line 43)
    preloadCall,            \* the preload() invocation: position and return value
    prepared,               \* the value returned by prepareTokenAccounts, if called
    digest                  \* the digestTokenAccounts() invocation

vars == <<env, currency, subAccounts, oracle, compoundPreloadedValue,
          preloadCall, prepared, digest>>

----------------------------------------------------------------------------
(* Bounds of the model.                                                    *)

MaxAccounts == 4
MaxOps == 4

(* Program constants: the two concurrency windows.                         *)
DigestBatch == 2
RatesBatch == 3

----------------------------------------------------------------------------
(* Generic helpers.                                                        *)

Absent == <<>>
Some(v) == <<v>>
IsSome(o) == Len(o) = 1
Get(o) == o[1]

Range(s) == {s[i] : i \in 1..Len(s)}

\* Array.prototype.find over the indices hits that pass the test: the first
\* such element, if any.
FindFirst(s, hits) ==
    IF hits = {} THEN Absent
    ELSE Some(s[CHOOSE i \in hits : \A j \in hits : i <= j])

----------------------------------------------------------------------------
(* BigNumber: the operations the module uses.  A value is kept exactly, as  *)
(* the record [m, e] of m * 10^(-e) with e >= 0 and no trailing zero in    *)
(* the fraction (m is not a multiple of 10 unless e = 0).  The integers    *)
(* the accounts hold (balances, operation values) are kept as integers.    *)

RECURSIVE TenTo(_)
TenTo(k) == IF k <= 0 THEN 1 ELSE 10 * TenTo(k - 1)

\* The record of m * 10^(-e) without trailing zeros.
RECURSIVE Dec(_, _)
Dec(m, e) ==
    IF e > 0 /\ m % 10 = 0 THEN Dec(m \div 10, e - 1) ELSE [m |-> m, e |-> e]

\* BigNumber(n) of an integer n.
BigOfInt(n) == Dec(n, 0)

\* x.times(y): exact.
Times(x, y) == Dec(x.m * y.m, x.e + y.e)

\* BigNumber(10).pow(n), n of either sign.
Pow10(n) == IF n >= 0 THEN Dec(TenTo(n), 0) ELSE Dec(1, -n)

\* The k decimal digits of n, first to last.
RECURSIVE Digits(_, _)
Digits(n, k) == IF k = 0 THEN <<>> ELSE Append(Digits(n \div 10, k - 1), n % 10)

\* The number a sequence of decimal digits writes.
RECURSIVE FromDigits(_)
FromDigits(ds) ==
    IF Len(ds) = 0 THEN 0
    ELSE 10 * FromDigits(SubSeq(ds, 1, Len(ds) - 1)) + ds[Len(ds)]

\* The number of decimal digits of n >= 0 (1 for 0).
RECURSIVE NumDigits(_)
NumDigits(n) == IF n < 10 THEN 1 ELSE 1 + NumDigits(n \div 10)

\* m \div 10^k for m >= 0, whatever the size of k.
Shift(m, k) == IF k >= NumDigits(m) THEN 0 ELSE m \div TenTo(k)

\* m * 10^(-drop) for m >= 0 and drop >= 1, rounded to an integer with the
\* library's ROUNDING_MODE, which the repository leaves at its default
\* ROUND_HALF_UP.
RoundHalfUp(m, drop) ==
    LET q == Shift(m, drop - 1)
    IN q \div 10 + (IF q % 10 >= 5 THEN 1 ELSE 0)

\* x.integerValue(): with no argument, the ROUNDING_MODE (half away from zero).
IntegerValue(x) ==
    IF x.e = 0 THEN x.m
    ELSE IF x.m >= 0 THEN RoundHalfUp(x.m, x.e)
    ELSE -RoundHalfUp(-x.m, x.e)

\* A value >= 0 rounded to at most dp decimal places, half up.
RoundTo(x, dp) ==
    IF x.e <= dp THEN x ELSE Dec(RoundHalfUp(x.m, x.e - dp), dp)

\* The library's DECIMAL_PLACES, which the repository leaves at its default.
DECIMAL_PLACES == 20

\* The digits of the fraction of a value >= 0.
FracDigits(x) ==
    IF x.e >= NumDigits(x.m) THEN Digits(x.m, x.e)
    ELSE Digits(x.m % TenTo(x.e), x.e)

\* A string of a number: the integer part, the digits of the fraction, and
\* the exponent of the exponential notation (0 in decimal notation).

\* x.toString(), no base given, of a value >= 0: every digit of the value,
\* in decimal notation, or in exponential notation ("5e-7", "1.5e-8") for a
\* value below 0.000001, the library's default EXPONENTIAL_AT.
DecToString(x) ==
    LET digits == NumDigits(x.m)
        exponent == digits - 1 - x.e
    IN IF x.m # 0 /\ exponent <= -7
       THEN [int |-> x.m \div TenTo(digits - 1),
             frac |-> Digits(x.m % TenTo(digits - 1), digits - 1),
             exp |-> exponent]
       ELSE [int |-> Shift(x.m, x.e), frac |-> FracDigits(x), exp |-> 0]

\* x.toString(10) of a value >= 0: with the base given the value is rounded
\* to DECIMAL_PLACES places (half up) and written in decimal notation,
\* however small it is.
ToStringBase10(x) ==
    LET r == RoundTo(x, DECIMAL_PLACES)
    IN [int |-> Shift(r.m, r.e), frac |-> FracDigits(r), exp |-> 0]

\* BigNumber(string) of a string in decimal or exponential notation.
DecParse(str) ==
    LET n == IF str.int = 0 THEN FromDigits(str.frac)
             ELSE str.int * TenTo(Len(str.frac)) + FromDigits(str.frac)
    IN IF str.exp >= 0 THEN Dec(n * TenTo(str.exp), Len(str.frac))
       ELSE Dec(n, Len(str.frac) - str.exp)

\* x.decimalPlaces(2) of a value >= 0: at most two places, half up.
DecimalPlaces2(x) == RoundTo(x, 2)

----------------------------------------------------------------------------
(* The currency registry (../../../currencies).  A token is an object: its *)
(* field ref stands for the object's identity, "registry" for the one      *)
(* object the registry holds per token id, "copy" for another object with  *)
(* the same fields (a token that was cloned or deserialized); two tokens   *)
(* are the same object (===) when the records are equal.                   *)

TokenIds == <<"dai", "cdai", "usdc", "cusdc", "zrx">>

CompoundFor(id) ==
    CASE id = "cdai" -> "dai"
      [] id = "cusdc" -> "usdc"
      [] OTHER -> ""

\* The ctokens have 2 decimals; dai has more (3), usdc fewer (1).
Magnitude(id) ==
    IF CompoundFor(id) # "" THEN 2 ELSE IF id = "usdc" THEN 1 ELSE 3

getTokenById(id) ==
    [id |-> id, compoundFor |-> CompoundFor(id), magnitude |-> Magnitude(id),
     contractAddress |-> id, ref |-> "registry"]

listTokens == [i \in 1..Len(TokenIds) |-> getTokenById(TokenIds[i])]

listTokensForCryptoCurrency(cur) == IF cur = "ethereum" THEN listTokens ELSE <<>>

CTokens == {t \in Range(listTokens) : t.compoundFor # ""}
CTokenIds == {t.id : t \in CTokens}

----------------------------------------------------------------------------
(* Operations and accounts (../../../types).  An operation id is the       *)
(* string `${accountId}-${hash}-${type}`, kept as the triple.              *)

OpTypes == {"IN", "OUT", "FEES"}

Operation(accountId, hash, type, value, date) ==
    [id |-> <<accountId, hash, type>>, hash |-> hash, type |-> type,
     value |-> value, date |-> date, accountId |-> accountId,
     extra |-> [compoundValue |-> Absent, rate |-> Absent]]

\* A token account; its id is parentId + "+" + token id, kept as the pair,
\* and its token is the token object.
TokenAccount(parentId, token, balance, spendable, ops) ==
    [id |-> <<parentId, token.id>>, token |-> token, balance |-> balance,
     spendableBalance |-> spendable, operations |-> ops,
     pendingOperations |-> <<>>]

----------------------------------------------------------------------------
(* The rate snapshot and its readers (lines 43-79).                        *)

getCTokenRate(snapshot, ctokenId) ==
    IF ctokenId \in DOMAIN snapshot THEN DecParse(snapshot[ctokenId].rate)
    ELSE BigOfInt(0)

getCTokenSupplyAPY(snapshot, ctokenId) ==
    IF ctokenId \in DOMAIN snapshot THEN snapshot[ctokenId].supplyAPY
    ELSE <<>>

----------------------------------------------------------------------------
(* The Compound API answers (lines 231-287).  An answer lists, per ctoken  *)
(* address, an entry or nothing; an entry holds exchange_rate.value and,   *)
(* for the current rate, comp_supply_apy.value, both decimals.             *)

\* rate = BigNumber(rawRate).times(10 ^ (otoken magnitude - ctoken magnitude)).
NormalizedRate(ctoken, rawRate) ==
    LET otoken == getTokenById(ctoken.compoundFor)
        magnitudeRatio == Pow10(otoken.magnitude - ctoken.magnitude)
    IN Times(rawRate, magnitudeRatio)

\* The body of fetchCurrentRates's tokens.map (lines 237-253): data is the
\* answer, a function from the ctoken ids it lists to their entries.
CurrentRateOf(ctoken, data) ==
    IF ctoken.id \notin DOMAIN data
    THEN [token |-> ctoken.id, rate |-> BigOfInt(0), supplyAPY |-> <<>>]
    ELSE [token |-> ctoken.id,
          rate |-> NormalizedRate(ctoken, data[ctoken.id].exchange_rate),
          supplyAPY |-> <<DecToString(DecimalPlaces2(data[ctoken.id].comp_supply_apy)), "%">>]

\* The snapshot preload() builds from the current rates (lines 56-62).
PreloadedOf(ctokens, data) ==
    [id \in {t.id : t \in ctokens} |->
        LET r == CurrentRateOf(getTokenById(id), data)
        IN [rate |-> ToStringBase10(r.rate), supplyAPY |-> r.supplyAPY]]

\* The body of fetchHistoricalRates's callback once the answer is there
\* (lines 270-284): entry is the ctoken's entry in the answer, if any.
HistoRateOf(ctoken, entry) ==
    IF ~IsSome(entry) THEN BigOfInt(0)
    ELSE NormalizedRate(ctoken, Get(entry))

----------------------------------------------------------------------------
(* inferSubAccountsCompound (lines 289-318).  The result object is kept as *)
(* the sequence of its entries in key insertion order.  The underlying     *)
(* account is found by token id (line 303), the ctoken account by the      *)
(* identity of its token object (line 305).                                *)

LookupKey(map, key) == FindFirst(map, {i \in 1..Len(map) : map[i].key = key})

SetKey(map, entry) ==
    IF IsSome(LookupKey(map, entry.key))
    THEN [i \in 1..Len(map) |-> IF map[i].key = entry.key THEN entry ELSE map[i]]
    ELSE Append(map, entry)

RECURSIVE InferFrom(_, _, _)
InferFrom(tokens, accounts, map) ==
    IF tokens = <<>> THEN map
    ELSE
      LET ctoken == Head(tokens)
          compoundFor == ctoken.compoundFor
          tokenAccount == FindFirst(accounts, {i \in 1..Len(accounts) : accounts[i].token.id = compoundFor})
          ctokenAccount == FindFirst(accounts, {i \in 1..Len(accounts) : accounts[i].token = ctoken})
      IN IF compoundFor = "" THEN InferFrom(Tail(tokens), accounts, map)
         ELSE IF ~IsSome(tokenAccount) /\ ~IsSome(ctokenAccount)
         THEN InferFrom(Tail(tokens), accounts, map)
         ELSE InferFrom(Tail(tokens), accounts,
                        SetKey(map, [key |-> compoundFor,
                                     tokenAccount |-> tokenAccount,
                                     token |-> getTokenById(compoundFor),
                                     ctoken |-> ctoken,
                                     ctokenAccount |-> ctokenAccount]))

inferSubAccountsCompound(cur, accounts) ==
    InferFrom(listTokensForCryptoCurrency(cur), accounts, <<>>)

----------------------------------------------------------------------------
(* prepareTokenAccounts (lines 81-116).  The result records whether it is  *)
(* the very array it was given.                                            *)

\* The placeholder of lines 94-108: id "empty_" + ctoken.id, token the ctoken
\* object of the pair.
EmptyCTokenAccount(ctoken) ==
    [id |-> <<"empty_", ctoken.id>>, token |-> ctoken, balance |-> 0,
     spendableBalance |-> 0, operations |-> <<>>, pendingOperations |-> <<>>]

\* Faulty variant: a placeholder for every pair with an underlying account, the test
\* for an existing ctoken account forgotten.
RECURSIVE ImplicitForEveryToken(_)
ImplicitForEveryToken(map) ==
    IF map = <<>> THEN <<>>
    ELSE LET e == Head(map)
         IN (IF IsSome(e.tokenAccount)
             THEN <<EmptyCTokenAccount(e.ctoken)>> ELSE <<>>)
            \o ImplicitForEveryToken(Tail(map))

RECURSIVE ImplicitCTokenAccounts(_)
ImplicitCTokenAccounts(map) ==
    IF map = <<>> THEN <<>>
    ELSE LET e == Head(map)
         IN (IF IsSome(e.tokenAccount) /\ ~IsSome(e.ctokenAccount)
             THEN <<EmptyCTokenAccount(e.ctoken)>> ELSE <<>>)
            \o ImplicitCTokenAccounts(Tail(map))

prepareTokenAccounts(cur, envCompound, accounts) ==
    IF cur # "ethereum" \/ ~envCompound
    THEN [same |-> TRUE, accounts |-> accounts]
    ELSE LET implicit == ImplicitCTokenAccounts(inferSubAccountsCompound(cur, accounts))
         IN IF Len(implicit) = 0 THEN [same |-> TRUE, accounts |-> accounts]
            ELSE [same |-> FALSE, accounts |-> accounts \o implicit]

----------------------------------------------------------------------------
(* mergeOps (../../../bridge/jsHelpers): the id-keyed union of the         *)
(* existing operations and the new ones, by date descending.               *)

RECURSIVE InsertByDate(_, _)
InsertByDate(sorted, op) ==
    IF sorted = <<>> THEN <<op>>
    ELSE IF op.date > Head(sorted).date THEN <<op>> \o sorted
    ELSE <<Head(sorted)>> \o InsertByDate(Tail(sorted), op)

RECURSIVE SortByDate(_)
SortByDate(ops) ==
    IF ops = <<>> THEN <<>>
    ELSE InsertByDate(SortByDate(SubSeq(ops, 1, Len(ops) - 1)), ops[Len(ops)])

RECURSIVE DedupById(_, _)
DedupById(ops, seen) ==
    IF ops = <<>> THEN <<>>
    ELSE IF Head(ops).id \in seen THEN DedupById(Tail(ops), seen)
    ELSE <<Head(ops)>> \o DedupById(Tail(ops), seen \cup {Head(ops).id})

mergeOps(existing, newFetched) ==
    IF Len(newFetched) = 0 THEN existing
    ELSE LET newOps == DedupById(newFetched, {o.id : o \in Range(existing)})
         IN IF Len(newOps) = 0 THEN existing
            ELSE SortByDate(existing \o newOps)

----------------------------------------------------------------------------
(* digestTokenAccounts: the callback run on each account (lines 140-209).  *)

\* cdaiToDaiOpMapping (lines 118-121); "" stands for undefined.
cdaiToDaiOpMapping(type) ==
    CASE type = "IN" -> "SUPPLY"
      [] type = "OUT" -> "REDEEM"
      [] OTHER -> ""

\* Faulty variant: the operations without a mapped type are kept under their own type.
NewOpKeepsUnmapped(a, op, rate) ==
    LET value == IntegerValue(Times(BigOfInt(op.value), rate))
        mapped == cdaiToDaiOpMapping(op.type)
        type == IF mapped = "" THEN op.type ELSE mapped
    IN Some([op EXCEPT !.id = <<a.id, op.hash, type>>,
                       !.type = type,
                       !.value = value,
                       !.accountId = a.id,
                       !.extra = [compoundValue |-> Some(op.value),
                                  rate |-> Some(DecToString(rate))]])

\* The body of the operations.map of lines 183-196, for one operation and
\* the rate at its index.
NewOp(a, op, rate) ==
    LET value == IntegerValue(Times(BigOfInt(op.value), rate))
        type == cdaiToDaiOpMapping(op.type)
    IN IF type = "" THEN Absent
       ELSE Some([op EXCEPT !.id = <<a.id, op.hash, type>>,
                            !.type = type,
                            !.value = value,
                            !.accountId = a.id,
                            !.extra = [compoundValue |-> Some(op.value),
                                       rate |-> Some(DecToString(rate))]])

\* newOps (lines 182-197): operation i is converted with rates[i]; the
\* operations without a mapped type are filtered out.
RECURSIVE NewOpsFrom(_, _, _, _)
NewOpsFrom(a, ops, rates, i) ==
    IF i > Len(ops) THEN <<>>
    ELSE NewOp(a, ops[i], rates[i]) \o NewOpsFrom(a, ops, rates, i + 1)

NewOps(a, ops, rates) == NewOpsFrom(a, ops, rates, 1)

\* Faulty variant: the ctoken account of a merged pair is returned instead of dropped.
DigestStartKeepsCToken(a, map, snapshot) ==
    LET compoundFor == a.token.compoundFor
        maybeCompound == LookupKey(map, a.token.id)
    IN IF compoundFor # ""
       THEN [await |-> FALSE, value |-> Some(a)]
       ELSE IF IsSome(maybeCompound) /\ IsSome(Get(maybeCompound).ctokenAccount)
       THEN LET ctokenAccount == Get(Get(maybeCompound).ctokenAccount)
                latestRate == getCTokenRate(snapshot, Get(maybeCompound).ctoken.id)
            IN [await |-> TRUE,
                latestRate |-> latestRate,
                balance |-> a.balance
                              + IntegerValue(Times(BigOfInt(ctokenAccount.balance), latestRate)),
                spendableBalance |-> a.balance]
       ELSE [await |-> FALSE, value |-> Some(a)]

\* Faulty variant: an account that is in no pair is dropped like a ctoken account.
DigestStartDropsOthers(a, map, snapshot) ==
    LET compoundFor == a.token.compoundFor
        maybeCompound == LookupKey(map, a.token.id)
    IN IF compoundFor # ""
       THEN IF ~IsSome(LookupKey(map, compoundFor))
            THEN [await |-> FALSE, value |-> Some(a)]
            ELSE [await |-> FALSE, value |-> Absent]
       ELSE IF ~IsSome(maybeCompound)
       THEN [await |-> FALSE, value |-> Absent]
       ELSE IF IsSome(Get(maybeCompound).ctokenAccount)
       THEN LET ctokenAccount == Get(Get(maybeCompound).ctokenAccount)
                latestRate == getCTokenRate(snapshot, Get(maybeCompound).ctoken.id)
            IN [await |-> TRUE,
                latestRate |-> latestRate,
                balance |-> a.balance
                              + IntegerValue(Times(BigOfInt(ctokenAccount.balance), latestRate)),
                spendableBalance |-> a.balance]
       ELSE [await |-> FALSE, value |-> Some(a)]

\* The callback up to its first await (lines 142-162 and 206-208): either
\* it returns at once (an account, or undefined), or it has computed the
\* merged balance from the snapshot and waits for the historical rates.
DigestStart(a, map, snapshot) ==
    LET compoundFor == a.token.compoundFor
        maybeCompound == LookupKey(map, a.token.id)
    IN IF compoundFor # ""
       THEN IF ~IsSome(LookupKey(map, compoundFor))
            THEN [await |-> FALSE, value |-> Some(a)]
            ELSE [await |-> FALSE, value |-> Absent]
       ELSE IF IsSome(maybeCompound) /\ IsSome(Get(maybeCompound).ctokenAccount)
       THEN LET ctokenAccount == Get(Get(maybeCompound).ctokenAccount)
                latestRate == getCTokenRate(snapshot, Get(maybeCompound).ctoken.id)
            IN [await |-> TRUE,
                latestRate |-> latestRate,
                balance |-> a.balance
                              + IntegerValue(Times(BigOfInt(ctokenAccount.balance), latestRate)),
                spendableBalance |-> a.balance]
       ELSE [await |-> FALSE, value |-> Some(a)]

\* Faulty variant: the spendable balance follows the merged balance.
DigestFinishSpendableGrows(a, ctokenAccount, started, rates) ==
    [a EXCEPT !.spendableBalance = started.balance,
              !.balance = started.balance,
              !.operations = mergeOps(a.operations,
                                      NewOps(a, ctokenAccount.operations, rates))]

\* The callback after the historical rates arrived (lines 182-205).
DigestFinish(a, ctokenAccount, started, rates) ==
    [a EXCEPT !.spendableBalance = started.spendableBalance,
              !.balance = started.balance,
              !.operations = mergeOps(a.operations,
                                      NewOps(a, ctokenAccount.operations, rates))]

\* all.filter(Boolean) (line 211) over the slots 1..n of the results array.
RECURSIVE FilterBoolean(_, _, _)
FilterBoolean(data, i, n) ==
    IF i > n THEN <<>>
    ELSE (IF i \in DOMAIN data THEN data[i] ELSE <<>>) \o FilterBoolean(data, i + 1, n)

----------------------------------------------------------------------------
(* digestTokenAccounts as a process (lines 123-212).  promiseAllBatched    *)
(* (../../../promise) keeps a queue of the items and a results array and   *)
(* starts min(batch, items) workers inside the call; a worker takes the    *)
(* next queued item, calls the callback, awaits it, stores its result at   *)
(* the item's index and goes on with the next item; the call resolves with *)
(* the array when every worker found the queue empty, and rejects as soon  *)
(* as one callback rejects.  A callback runs up to its first await inside  *)
(* the step that takes its item; what follows an await is a promise        *)
(* reaction.  The reactions of the workers run in turns, in the order of   *)
(* the workers; an answer of the network is handled only when no reaction  *)
(* is pending.                                                             *)
(*   digest.next    the first index still queued                           *)
(*   digest.workers per worker, the index whose callback it awaits (0 when *)
(*                  it is through), the value the callback returned, and   *)
(*                  due: the number of its turns until it stores (0 while  *)
(*                  the callback waits for the network)                    *)
(*   digest.turn    the worker whose reaction is first in the queue        *)
(*   digest.data    the results array, defined on the stored indices       *)
(*   digest.tasks   the callbacks suspended in fetchHistoricalRates: what  *)
(*                  they computed before the await, and their own batched  *)
(*                  loop over the dates (rnext, rflight, rates)            *)
(*   digest.locals  what each finished merge held in its local variables   *)
(*                  latestRate, rates and newOps, by index                 *)
(*   digest.order   the indices in the order their callbacks returned      *)

IdleDigest ==
    [pc |-> "idle", pass |-> 0, input |-> <<>>, next |-> 1, data |-> <<>>,
     workers |-> <<>>, turn |-> 1,
     tasks |-> <<>>, locals |-> <<>>, order |-> <<>>, result |-> <<>>,
     same |-> FALSE, first |-> Absent, error |-> ""]

Without(f, i) == [j \in DOMAIN f \ {i} |-> f[j]]

Min(a, b) == IF a < b THEN a ELSE b

\* The reactions between a worker's call of a callback that returns without
\* waiting and its store: the worker's own await.
ReturnTicks == 1

\* The reactions promiseAllBatched takes to resolve on no item.
EmptyBatchTicks == 1

\* The reactions between the start of a merge without ctoken operation and
\* its store: the batch on no date, the await of fetchHistoricalRates (line
\* 265), the await of the callback (line 177) and the worker's own.
MergeTicks == EmptyBatchTicks + 2 + ReturnTicks

\* The ctoken account merged into the underlying account a.
CTokenAccountOf(map, a) == Get(Get(LookupKey(map, a.token.id)).ctokenAccount)

\* A worker that is through.
WorkerDone == [idx |-> 0, due |-> 0, value |-> Absent]

\* No reaction of a worker is pending: each worker is through or its
\* callback waits for the network.
Quiescent(d) == \A w \in 1..Len(d.workers) : d.workers[w].due = 0

NextTurn(turn, n) == IF turn >= n THEN 1 ELSE turn + 1

\* The reactions that store nothing are run: the queue is left with a
\* storing reaction of worker turn at its head, or empty.
RECURSIVE Advance(_, _)
Advance(ws, turn) ==
    IF \A w \in 1..Len(ws) : ws[w].due = 0
    THEN [workers |-> ws, turn |-> 1]
    ELSE IF ws[turn].due = 1
    THEN [workers |-> ws, turn |-> turn]
    ELSE IF ws[turn].due = 0
    THEN Advance(ws, NextTurn(turn, Len(ws)))
    ELSE Advance([ws EXCEPT ![turn].due = @ - 1], NextTurn(turn, Len(ws)))

\* Worker w takes the next queued account, if any, and runs its callback up
\* to the first await, with the snapshot installed at that moment.
StartNext(d, w, map, snapshot) ==
    IF d.next > Len(d.input)
    THEN [d EXCEPT !.workers[w] = WorkerDone]
    ELSE LET i == d.next
             a == d.input[i]
             r == DigestStart(a, map, snapshot)
             taken == [d EXCEPT !.next = i + 1]
         IN IF ~r.await
            THEN [taken EXCEPT !.workers[w] =
                     [idx |-> i, due |-> ReturnTicks, value |-> r.value]]
            ELSE LET n == Len(CTokenAccountOf(map, a).operations)
                 IN [taken EXCEPT
                       !.workers[w] =
                           [idx |-> i, due |-> IF n = 0 THEN MergeTicks ELSE 0,
                            value |-> Absent],
                       !.tasks = @ @@ (i :>
                           [latestRate |-> r.latestRate,
                            balance |-> r.balance,
                            spendableBalance |-> r.spendableBalance,
                            rnext |-> Min(RatesBatch, n) + 1,
                            rflight |-> 1..Min(RatesBatch, n),
                            rates |-> <<>>])]

\* The workers promiseAllBatched starts inside the call, first to last.
RECURSIVE StartWorkers(_, _, _, _)
StartWorkers(d, w, map, snapshot) ==
    IF w > Len(d.workers) THEN d
    ELSE StartWorkers(StartNext(d, w, map, snapshot), w + 1, map, snapshot)

\* A worker stores what a callback returned without waiting.
StoreReturned(d, w) ==
    LET i == d.workers[w].idx
    IN [d EXCEPT !.data = @ @@ (i :> d.workers[w].value),
                 !.order = Append(@, i)]

\* A worker stores a finished merge (the callback's return, lines 200-205).
StoreMerged(d, i, started, map, rates) ==
    LET a == d.input[i]
        ctokenAccount == CTokenAccountOf(map, a)
    IN [d EXCEPT !.data = @ @@ (i :> Some(DigestFinish(a, ctokenAccount, started, rates))),
                 !.locals = @ @@ (i :>
                     [latestRate |-> started.latestRate, rates |-> rates,
                      newOps |-> NewOps(a, ctokenAccount.operations, rates)]),
                 !.order = Append(@, i),
                 !.tasks = Without(@, i)]

\* The reaction queue after worker w stored and took its next item.
Requeue(d, w) ==
    LET q == Advance(d.workers, w)
    IN [d EXCEPT !.workers = q.workers, !.turn = q.turn]

\* promiseAllBatched resolves, and digestTokenAccounts returns all.filter(Boolean).
Settle(d) ==
    IF \A w \in 1..Len(d.workers) : d.workers[w].idx = 0
    THEN [d EXCEPT !.pc = "resolved",
                   !.result = FilterBoolean(d.data, 1, Len(d.input))]
    ELSE d

\* The call itself: the two early returns (lines 127-130), or the start of
\* the workers.
digestTokenAccounts(d0, cur, envCompound, accounts, snapshot) ==
    LET map == inferSubAccountsCompound(cur, accounts)
        d == [d0 EXCEPT !.input = accounts, !.pass = @ + 1]
    IN IF cur # "ethereum" \/ ~envCompound \/ Len(map) = 0
       THEN [d EXCEPT !.pc = "resolved", !.result = accounts, !.same = TRUE]
       ELSE LET started ==
                  StartWorkers([d EXCEPT !.pc = "running",
                                         !.workers = [w \in 1..Min(DigestBatch, Len(accounts))
                                                        |-> WorkerDone]],
                               1, map, snapshot)
                q == Advance(started.workers, 1)
            IN Settle([started EXCEPT !.workers = q.workers, !.turn = q.turn])

----------------------------------------------------------------------------
(* The inputs: account lists, Compound API answers, hydrate values.        *)

Parent == "js:2:ethereum:0xA:"

AccountId(tokenId) == <<Parent, tokenId>>

\* The k-th operation of the cdai account, dated k.
CdaiOp(k) ==
    Operation(AccountId("cdai"), k,
              CASE k % 3 = 1 -> "IN" [] k % 3 = 2 -> "OUT" [] OTHER -> "FEES",
              2 * k - 1, k)

\* The cdai account's operations, newest first.
CdaiOps(n) == [i \in 1..n |-> CdaiOp(n + 1 - i)]

\* The dai account already holds the SUPPLY operation an earlier digestion
\* made of the first cdai operation (the sync engine persists digested accounts).
DaiOps ==
    <<Operation(AccountId("dai"), 9, "IN", 4, 3)>>
      \o NewOp([id |-> AccountId("dai")], CdaiOp(1), BigOfInt(0))

AccountOf(tokenId, n) ==
    CASE tokenId = "dai" -> TokenAccount(Parent, getTokenById("dai"), 5, 5, DaiOps)
      [] tokenId = "cdai" -> TokenAccount(Parent, getTokenById("cdai"), 3, 3, CdaiOps(n))
      [] tokenId = "usdc" -> TokenAccount(Parent, getTokenById("usdc"), 2, 1, <<>>)
      [] tokenId = "cusdc" ->
           TokenAccount(Parent, getTokenById("cusdc"), 1, 1,
                        <<Operation(AccountId("cusdc"), 7, "IN", 1, 2)>>)
      [] OTHER -> TokenAccount(Parent, getTokenById(tokenId), 1, 1, <<>>)

\* The account with its token replaced by another object of the same fields.
WithCopiedToken(a) == [a EXCEPT !.token.ref = "copy"]

\* The lists of at most MaxAccounts accounts, one account per token at most.
TokenLists ==
    UNION {{l \in [1..k -> Range(TokenIds)] : \A i, j \in 1..k : l[i] = l[j] => i = j}
           : k \in 0..MaxAccounts}

\* The numbers of operations of the cdai account: none, one, and more than
\* one batch of dates.
OpCounts == {0, 1, MaxOps}

\* The lists of accounts holding the registry's token objects, and the lists
\* whose cdai account (with one operation) holds a copy of the cdai token.
AccountLists ==
    {[i \in 1..Len(l) |-> AccountOf(l[i], n)] :
        l \in TokenLists, n \in OpCounts}
    \cup
    {[i \in 1..Len(l) |->
        IF l[i] = "cdai" THEN WithCopiedToken(AccountOf("cdai", 1))
        ELSE AccountOf(l[i], 1)] :
        l \in {x \in TokenLists : "cdai" \in Range(x)}}

Dates == 1..(MaxOps + 1)

\* A raw exchange rate of the API that normalizes to v / 10: 0.01 v for cdai
\* (ratio 10), v for cusdc (ratio 0.1).
RawRate(c, v) == IF c = "cdai" THEN Dec(v, 2) ELSE Dec(v, 0)

\* What the API holds for each ctoken and date: an entry (its raw rate) or
\* nothing.  It has no cdai entry before date 2, and rates that normalize
\* to 0.5 on the even dates and to 1.5 on the odd ones.
HistOracles ==
    {[c \in CTokenIds, t \in Dates |->
        IF c = "cdai" /\ t < 2 THEN Absent
        ELSE IF t % 2 = 0 THEN Some(RawRate(c, 5)) ELSE Some(RawRate(c, 15))]}

\* The answers to the current-rate request of preload: one lists cdai (raw
\* 0.05, normalized to 0.5) and cusdc with a raw rate of 15 * 10^-20,
\* normalized to 15 * 10^-21, which has more than DECIMAL_PLACES places; one
\* lists cusdc (raw 0.55, normalized to 0.055) and has no entry for cdai.
CurrentAnswers ==
    {[c \in {"cdai", "cusdc"} |->
        IF c = "cdai"
        THEN [exchange_rate |-> Dec(5, 2), comp_supply_apy |-> Dec(2345, 3)]
        ELSE [exchange_rate |-> Dec(15, 20), comp_supply_apy |-> Dec(0, 0)]],
     [c \in {"cusdc"} |-> [exchange_rate |-> Dec(55, 2), comp_supply_apy |-> Dec(0, 0)]]}

\* The values handed to hydrate: snapshots an earlier preload serialized, one
\* knowing both ctokens (cdai 0.5, cusdc 1.5), one knowing cusdc only.
HydrateValues ==
    {[c \in CTokenIds |->
        [rate |-> ToStringBase10(IF c = "cdai" THEN Dec(5, 1) ELSE Dec(15, 1)),
         supplyAPY |-> <<DecToString(Dec(25, 1)), "%">>]],
     [c \in {"cusdc"} |-> [rate |-> ToStringBase10(Dec(15, 1)),
                            supplyAPY |-> <<DecToString(Dec(25, 1)), "%">>]]}

\* The configurations: the currency of the account and the COMPOUND flag.
Configs ==
    {<<"ethereum", TRUE>>, <<"ethereum", FALSE>>, <<"ethereum_classic", TRUE>>}

----------------------------------------------------------------------------
(* The state machine.                                                      *)

Init ==
    /\ \E c \in Configs : currency = c[1] /\ env = c[2]
    /\ subAccounts \in AccountLists
    /\ oracle \in HistOracles
    /\ compoundPreloadedValue = <<>>
    /\ preloadCall = [pc |-> "idle", value |-> <<>>]
    /\ prepared = Absent
    /\ digest = IdleDigest

\* Faulty variant: preload empties the module's snapshot before it asks for the rates
\* and fills it when they arrive.
PreloadCallClearsFirst ==
    /\ preloadCall.pc # "fetching"
    /\ IF ~env
       THEN preloadCall' = [pc |-> "resolved", value |-> <<>>]
            /\ UNCHANGED compoundPreloadedValue
       ELSE preloadCall' = [pc |-> "fetching", value |-> <<>>]
            /\ compoundPreloadedValue' = <<>>
    /\ UNCHANGED <<env, currency, subAccounts, oracle, prepared, digest>>

\* preload() up to its await (lines 51-55).
PreloadCall ==
    /\ preloadCall.pc # "fetching"
    /\ IF ~env
       THEN preloadCall' = [pc |-> "resolved", value |-> <<>>]
       ELSE preloadCall' = [pc |-> "fetching", value |-> <<>>]
    /\ UNCHANGED <<env, currency, subAccounts, oracle, compoundPreloadedValue,
                   prepared, digest>>

\* Faulty variant: the snapshot is built and returned, and not installed.
PreloadResolveNotInstalled ==
    /\ preloadCall.pc = "fetching"
    /\ Quiescent(digest)
    /\ \E data \in CurrentAnswers :
         preloadCall' = [pc |-> "resolved", value |-> PreloadedOf(CTokens, data)]
    /\ UNCHANGED <<env, currency, subAccounts, oracle, compoundPreloadedValue,
                   prepared, digest>>

\* The current rates arrive (an answer of the network, handled when no
\* reaction is pending): the snapshot is built, installed and returned
\* (lines 56-64).
PreloadResolve ==
    /\ preloadCall.pc = "fetching"
    /\ Quiescent(digest)
    /\ \E data \in CurrentAnswers :
         LET preloaded == PreloadedOf(CTokens, data)
         IN /\ compoundPreloadedValue' = preloaded
            /\ preloadCall' = [pc |-> "resolved", value |-> preloaded]
    /\ UNCHANGED <<env, currency, subAccounts, oracle, prepared, digest>>

\* The request fails, or its answer has no cToken list: preload rejects.
PreloadReject ==
    /\ preloadCall.pc = "fetching"
    /\ Quiescent(digest)
    /\ preloadCall' = [pc |-> "rejected", value |-> <<>>]
    /\ UNCHANGED <<env, currency, subAccounts, oracle, compoundPreloadedValue,
                   prepared, digest>>

\* hydrate(value) (lines 67-69).
Hydrate ==
    /\ \E value \in HydrateValues : compoundPreloadedValue' = value
    /\ UNCHANGED <<env, currency, subAccounts, oracle, preloadCall, prepared, digest>>

\* The sync engine calls prepareTokenAccounts before a sync round.
Prepare ==
    /\ prepared = Absent
    /\ prepared' = Some(prepareTokenAccounts(currency, env, subAccounts))
    /\ UNCHANGED <<env, currency, subAccounts, oracle, compoundPreloadedValue,
                   preloadCall, digest>>

\* The sync engine calls digestTokenAccounts after the round, on the list it
\* holds or on the prepared one (the placeholders left as they are).
DigestCall ==
    /\ prepared # Absent
    /\ digest.pc = "idle"
    /\ \E accounts \in {subAccounts, Get(prepared).accounts} :
         digest' = digestTokenAccounts(digest, currency, env, accounts,
                                       compoundPreloadedValue)
    /\ UNCHANGED <<env, currency, subAccounts, oracle, compoundPreloadedValue,
                   preloadCall, prepared>>

\* The digested list is digested once more.
DigestAgain ==
    /\ digest.pc = "resolved"
    /\ digest.pass = 1
    /\ digest' = digestTokenAccounts(
                     [IdleDigest EXCEPT !.pass = 1, !.first = Some(digest.result)],
                     currency, env, digest.result, compoundPreloadedValue)
    /\ UNCHANGED <<env, currency, subAccounts, oracle, compoundPreloadedValue,
                   preloadCall, prepared>>

\* The reaction at the head of the queue: the worker stores the result of
\* its callback, takes the next account and runs its callback up to the
\* first await (which reads the snapshot, line 159), or is through.
WorkerResume ==
    /\ digest.pc = "running"
    /\ ~Quiescent(digest)
    /\ LET map == inferSubAccountsCompound(currency, digest.input)
           w == digest.turn
           i == digest.workers[w].idx
           stored == IF i \in DOMAIN digest.tasks
                     THEN StoreMerged(digest, i, digest.tasks[i], map, <<>>)
                     ELSE StoreReturned(digest, w)
           next == StartNext(stored, w, map, compoundPreloadedValue)
           q == Advance(next.workers, NextTurn(w, Len(next.workers)))
       IN digest' = Settle([next EXCEPT !.workers = q.workers, !.turn = q.turn])
    /\ UNCHANGED <<env, currency, subAccounts, oracle, compoundPreloadedValue,
                   preloadCall, prepared>>

\* One historical-rate request of the callback on account i is answered
\* (lines 266-284); its worker takes the next date; when the last date of
\* the account is answered the callback goes on to its return (lines 182-205)
\* and the worker that awaited it stores the merge and takes the next account.
LookupResolve(i, j) ==
    /\ digest.pc = "running"
    /\ Quiescent(digest)
    /\ i \in DOMAIN digest.tasks
    /\ j \in digest.tasks[i].rflight
    /\ LET map == inferSubAccountsCompound(currency, digest.input)
           a == digest.input[i]
           ctoken == Get(LookupKey(map, a.token.id)).ctoken
           ops == CTokenAccountOf(map, a).operations
           t == digest.tasks[i]
           rate == HistoRateOf(ctoken, oracle[ctoken.id, ops[j].date])
           more == t.rnext <= Len(ops)
           t2 == [t EXCEPT !.rates = @ @@ (j :> rate),
                           !.rflight = (@ \ {j}) \cup (IF more THEN {t.rnext} ELSE {}),
                           !.rnext = IF more THEN @ + 1 ELSE @]
           w == CHOOSE v \in 1..Len(digest.workers) : digest.workers[v].idx = i
       IN digest' =
            IF DOMAIN t2.rates = 1..Len(ops)
            THEN Settle(Requeue(StartNext(StoreMerged(digest, i, t, map, t2.rates),
                                          w, map, compoundPreloadedValue), w))
            ELSE [digest EXCEPT !.tasks[i] = t2]
    /\ UNCHANGED <<env, currency, subAccounts, oracle, compoundPreloadedValue,
                   preloadCall, prepared>>

\* One historical-rate request fails (network) or its answer has no cToken
\* list (malformed): the callback throws, nothing catches it, and
\* digestTokenAccounts rejects.
LookupReject(i, j) ==
    /\ digest.pc = "running"
    /\ Quiescent(digest)
    /\ i \in DOMAIN digest.tasks
    /\ j \in digest.tasks[i].rflight
    /\ \E kind \in {"network", "malformed"} :
         digest' = [digest EXCEPT !.pc = "rejected", !.error = kind]
    /\ UNCHANGED <<env, currency, subAccounts, oracle, compoundPreloadedValue,
                   preloadCall, prepared>>

Next ==
    \/ Hydrate
    \/ Prepare
    \/ DigestCall
    \/ DigestAgain
    \/ WorkerResume
    \/ \E i \in 1..Len(digest.input), j \in 1..MaxOps : LookupResolve(i, j)
    \/ \E i \in 1..Len(digest.input), j \in 1..MaxOps : LookupReject(i, j)

Spec == Init /\ [][Next]_vars

\* The same program with preload() running beside it, on the lists of at
\* most three accounts that hold the registry's token objects.
InitRates ==
    /\ Init
    /\ Len(subAccounts) <= 3
    /\ \A a \in Range(subAccounts) : a.token.ref = "registry"

NextRates ==
    \/ Next
    \/ PreloadCall
    \/ PreloadResolve
    \/ PreloadReject

SpecRates == InitRates /\ [][NextRates]_vars

----------------------------------------------------------------------------
(* Properties.                                                             *)

Resolved == digest.pc = "resolved"

\* Both early returns of line 85 / 127 are passed.
GateOn == currency = "ethereum" /\ env

\* The token ids of a list of accounts.
TokensOf(accounts) == {a.token.id : a \in Range(accounts)}

\* The ctoken account of a list that is merged into the underlying account
\* a: the first account whose token is the registry's object of the
\* derivative token of a's token.
DerivativeAccountIn(accounts, a) ==
    LET hits == {k \in 1..Len(accounts) :
                    /\ CompoundFor(accounts[k].token.id) = a.token.id
                    /\ accounts[k].token.ref = "registry"}
    IN accounts[CHOOSE k \in hits : \A l \in hits : k <= l]

\* The ctoken account of the input merged into the underlying account a.
DerivativeAccountOf(a) == DerivativeAccountIn(digest.input, a)

\* The indices of the input whose callback went through the merge.
Merged == DOMAIN digest.locals

\* C1: a derivative account is in the digested output if and only if the
\* input holds no account of its underlying token; it is then the unchanged
\* input account, and with an underlying account no account of the derivative
\* token is left.  Stated for the enabled module (ethereum, COMPOUND set).
C1_DerivativeShownIffNoUnderlying ==
    (Resolved /\ GateOn) =>
        \A a \in Range(digest.input) :
            CompoundFor(a.token.id) # "" =>
                IF CompoundFor(a.token.id) \in TokensOf(digest.input)
                THEN a.token.id \notin TokensOf(digest.result)
                ELSE a \in Range(digest.result)

\* C2: the merged balance is U + floor(D * R) and at least U, for the rate R
\* the callback read from the snapshot.
C2_MergedBalanceIsTruncated ==
    Resolved =>
        \A i \in Merged :
            LET a == digest.input[i]
                c == DerivativeAccountOf(a)
                R == digest.locals[i].latestRate
                merged == Get(digest.data[i])
            IN /\ merged.balance = a.balance + ((c.balance * R.m) \div TenTo(R.e))
               /\ merged.balance >= a.balance

\* C3: a failing or malformed oracle answer counts for a zero rate, and
\* digestTokenAccounts never rejects.
C3_DigestNeverRejects == digest.pc # "rejected"

\* The operation ids of a list of operations are pairwise distinct.
DistinctIds(ops) ==
    \A k, l \in 1..Len(ops) : ops[k].id = ops[l].id => k = l

\* C4: digesting the digested list again gives the same list: no operation
\* is synthesized twice and no converted balance is added twice.
C4_DigestIsIdempotent ==
    (Resolved /\ digest.pass = 2) =>
        /\ digest.result = Get(digest.first)
        /\ \A a \in Range(digest.result) : DistinctIds(a.operations)

\* A second digestion of a list whose first digestion merged a pair, adding
\* to the balance and to the operations of the underlying account.
C4_Witness ==
    /\ Resolved /\ digest.pass = 2 /\ GateOn
    /\ \E a \in Range(digest.result), b \in Range(subAccounts) :
         /\ a.id = b.id
         /\ a.balance > b.balance
         /\ Len(a.operations) > Len(b.operations)

\* The derivative tokens of a currency.
DerivativesOf(cur) ==
    {t.id : t \in {x \in Range(listTokensForCryptoCurrency(cur)) : x.compoundFor # ""}}

\* The derivative tokens whose underlying account is in a list and whose own
\* account is not, accounts told by the id of their token.
NeedPlaceholder(cur, accounts) ==
    {c \in DerivativesOf(cur) :
        CompoundFor(c) \in TokensOf(accounts) /\ c \notin TokensOf(accounts)}

\* The same, with the derivative's own account told by its token being the
\* very token object of the registry: an account whose token is another
\* object of the same id does not count.
NeedPlaceholderByObject(cur, accounts) ==
    {c \in DerivativesOf(cur) :
        /\ \E a \in Range(accounts) : a.token.id = CompoundFor(c)
        /\ ~\E a \in Range(accounts) : a.token.id = c /\ a.token.ref = "registry"}

IsPlaceholder(p, c) ==
    /\ p.id = <<"empty_", c>>
    /\ p.token.id = c
    /\ p.token.ref = "registry"
    /\ p.balance = 0
    /\ p.spendableBalance = 0
    /\ p.operations = <<>>
    /\ p.pendingOperations = <<>>

\* The result r is the list followed by one placeholder per token of need, and
\* the list itself when need is empty.
InputPlusPlaceholders(r, accounts, need) ==
    LET n == Len(accounts)
        tail == SubSeq(r.accounts, n + 1, Len(r.accounts))
    IN /\ Len(r.accounts) = n + Cardinality(need)
       /\ SubSeq(r.accounts, 1, n) = accounts
       /\ \A c \in need : \E k \in 1..Len(tail) : IsPlaceholder(tail[k], c)
       /\ r.same <=> need = {}

\* C5 as claimed: prepareTokenAccounts returns the input followed by one
\* placeholder for every derivative token of the currency whose underlying
\* account is in the input and whose own account is not, and the very input
\* when there is none.
C5_PlaceholdersAsClaimed ==
    prepared # Absent =>
        InputPlusPlaceholders(Get(prepared), subAccounts,
                              NeedPlaceholder(currency, subAccounts))

\* C5 amended: when the currency is ethereum and the COMPOUND flag is set,
\* prepareTokenAccounts returns the input followed by one placeholder for
\* every derivative token of the currency whose underlying account is in the
\* input and of which no account of the input holds the registry's own
\* token object (an account holding a copy of the token does not count), and
\* the very input when there is none; otherwise the result is the very input
\* list.
C5_PlaceholdersWhenEnabled ==
    prepared # Absent =>
        IF GateOn
        THEN InputPlusPlaceholders(Get(prepared), subAccounts,
                                   NeedPlaceholderByObject(currency, subAccounts))
        ELSE Get(prepared).same /\ Get(prepared).accounts = subAccounts

\* prepareTokenAccounts appended the cdai placeholder, and no other, to a list
\* that holds the dai account, a cdai account whose token is a copy, and the
\* usdc and cusdc accounts, a pair needing none.
C5_Witness ==
    /\ prepared # Absent /\ GateOn
    /\ {"dai", "cdai", "usdc", "cusdc"} \subseteq TokensOf(subAccounts)
    /\ \E a \in Range(subAccounts) : a.token.id = "cdai" /\ a.token.ref = "copy"
    /\ Len(Get(prepared).accounts) = Len(subAccounts) + 1
    /\ IsPlaceholder(Get(prepared).accounts[Len(subAccounts) + 1], "cdai")

\* C6: in a merged account, an operation that is not one of the underlying
\* account's own is SUPPLY from an IN operation of the ctoken account or
\* REDEEM from an OUT one; the other ctoken operations leave nothing; each
\* IN / OUT ctoken operation has exactly one synthesized operation.
C6_OnlySupplyAndRedeem ==
    Resolved =>
        \A i \in Merged :
            LET a == digest.input[i]
                cops == Range(DerivativeAccountOf(a).operations)
                own == {o.id : o \in Range(a.operations)}
                mops == Get(digest.data[i]).operations
                added == {o \in Range(mops) : o.id \notin own}
            IN /\ \A o \in added :
                     \E c \in cops :
                        /\ o.hash = c.hash
                        /\ \/ o.type = "SUPPLY" /\ c.type = "IN"
                           \/ o.type = "REDEEM" /\ c.type = "OUT"
               /\ \A c \in cops :
                     c.type \notin {"IN", "OUT"} =>
                        \A o \in Range(mops) : o.id[2] = c.hash => o.id \in own
               /\ \A c \in cops :
                     c.type \in {"IN", "OUT"} =>
                        Cardinality({k \in 1..Len(mops) :
                            mops[k].id = <<a.id, c.hash,
                                           IF c.type = "IN" THEN "SUPPLY" ELSE "REDEEM">>}) = 1

\* A merge of a ctoken account holding an IN, an OUT and a FEES operation.
C6_Witness ==
    /\ Resolved
    /\ \E i \in Merged :
         /\ {"IN", "OUT", "FEES"} \subseteq
               {c.type : c \in Range(DerivativeAccountOf(digest.input[i]).operations)}
         /\ {"SUPPLY", "REDEEM"} \subseteq
               {o.type : o \in Range(Get(digest.data[i]).operations)}

\* A preload() call returns in this step.
PreloadReturns == preloadCall' # preloadCall /\ preloadCall'.pc = "resolved"

\* C7 as claimed: once preload() returns a snapshot, getCTokenRate agrees with
\* the returned snapshot for every derivative token (the stored rate, 0
\* without an entry).
C7_RateAgreesWithReturned ==
    [][PreloadReturns =>
          \A c \in CTokenIds :
              getCTokenRate(compoundPreloadedValue', c)
                = (IF c \in DOMAIN preloadCall'.value
                   THEN DecParse(preloadCall'.value[c].rate) ELSE Dec(0, 0))]_vars

\* C7 amended: with the COMPOUND flag set it is so, and the returned snapshot
\* is the installed one; with the flag unset preload() returns an empty
\* snapshot and leaves the installed one as it is.  In every state
\* getCTokenRate is 0 for a token the installed snapshot has no entry for.
C7_RateAgreesWhenEnabled ==
    [][/\ (PreloadReturns /\ env) =>
            /\ compoundPreloadedValue' = preloadCall'.value
            /\ \A c \in CTokenIds :
                  getCTokenRate(compoundPreloadedValue', c)
                    = (IF c \in DOMAIN preloadCall'.value
                       THEN DecParse(preloadCall'.value[c].rate) ELSE Dec(0, 0))
       /\ (PreloadReturns /\ ~env) =>
            /\ preloadCall'.value = <<>>
            /\ compoundPreloadedValue' = compoundPreloadedValue
       /\ \A c \in CTokenIds :
            c \notin DOMAIN compoundPreloadedValue' =>
                getCTokenRate(compoundPreloadedValue', c) = Dec(0, 0)]_vars

\* preload() returned the snapshot made of the API's answer: 0.55 normalized
\* to 0.055 for cusdc, and 0 for cdai, which the answer does not list.
C7_Witness ==
    /\ env
    /\ preloadCall.pc = "resolved"
    /\ compoundPreloadedValue = preloadCall.value
    /\ getCTokenRate(compoundPreloadedValue, "cusdc") = Dec(55, 3)
    /\ getCTokenRate(compoundPreloadedValue, "cdai") = Dec(0, 0)

\* The rate the API holds for a ctoken at a date, normalized by the ratio of
\* the magnitudes (10 for cdai, 0.1 for cusdc), 0 without an entry.
OracleRate(c, date) ==
    IF oracle[c, date] = <<>> THEN Dec(0, 0)
    ELSE LET raw == oracle[c, date][1]
         IN IF c = "cdai" THEN Dec(raw.m * 10, raw.e) ELSE Dec(raw.m, raw.e + 1)

\* The rates of a merge are those of the operations' dates, in their order,
\* and each IN / OUT operation has its synthesized operation: same hash and
\* date, the converted value, the original value and the rate in extra.
RatesByDate(truncated) ==
    Resolved =>
        \A i \in Merged :
            LET c == DerivativeAccountOf(digest.input[i])
                ops == c.operations
                loc == digest.locals[i]
            IN /\ Len(loc.rates) = Len(ops)
               /\ \A j \in 1..Len(ops) :
                     /\ loc.rates[j] = OracleRate(c.token.id, ops[j].date)
                     /\ ops[j].type \in {"IN", "OUT"} =>
                          \E o \in Range(loc.newOps) :
                             /\ o.hash = ops[j].hash
                             /\ o.date = ops[j].date
                             /\ o.value = IF truncated
                                          THEN (ops[j].value * loc.rates[j].m)
                                                 \div TenTo(loc.rates[j].e)
                                          ELSE (2 * ops[j].value * loc.rates[j].m
                                                  + TenTo(loc.rates[j].e))
                                                 \div (2 * TenTo(loc.rates[j].e))
                             /\ o.extra.compoundValue = <<ops[j].value>>
                             /\ Len(o.extra.rate) = 1
                             /\ DecParse(o.extra.rate[1]) = loc.rates[j]

\* C8: the rate applied to the i-th ctoken operation is the oracle's rate for
\* that operation's date, whatever order the lookups complete in, and the
\* synthesized operation carries value = truncate(value * rate), the date,
\* the hash, and the original value and the rate in extra.
C8_RatesByDateTruncated == RatesByDate(TRUE)

\* What the code does: the same with the product rounded half up.
RatesByDateRounded == RatesByDate(FALSE)

\* C9: the snapshot changes only by hydrate or by a preload that resolves,
\* and then to a whole snapshot (one entry per ctoken for preload); a
\* preload that rejects leaves it; the rate a digest callback reads is the
\* installed snapshot's.
C9_SnapshotReplacedWhole ==
    [][/\ compoundPreloadedValue' # compoundPreloadedValue =>
            \/ compoundPreloadedValue' \in HydrateValues
            \/ /\ preloadCall.pc = "fetching"
               /\ preloadCall'.pc = "resolved"
               /\ compoundPreloadedValue' = preloadCall'.value
               /\ DOMAIN compoundPreloadedValue' = CTokenIds
       /\ (preloadCall.pc = "fetching" /\ preloadCall'.pc = "rejected") =>
            compoundPreloadedValue' = compoundPreloadedValue
       /\ LET in == digest'.input
              started == IF digest'.pass = digest.pass
                         THEN DOMAIN digest'.tasks \ DOMAIN digest.tasks
                         ELSE DOMAIN digest'.tasks
          IN \A i \in started :
               digest'.tasks[i].latestRate
                 = getCTokenRate(compoundPreloadedValue,
                      DerivativeAccountIn(in, in[i]).token.id)]_vars

\* A digestion in flight holds the rate it read from the snapshot in place
\* while a preload is suspended on the API.
C9_Witness ==
    /\ digest.pc = "running"
    /\ preloadCall.pc = "fetching"
    /\ compoundPreloadedValue # <<>>
    /\ \E i \in DOMAIN digest.tasks : digest.tasks[i].latestRate.m > 0

\* The index of the input account with an id.
PosOf(id) == CHOOSE k \in 1..Len(digest.input) : digest.input[k].id = id

\* C10: the output holds the accounts that are not dropped in the order of
\* the input, whatever order the callbacks return in; an account that is
\* neither a ctoken account nor the underlying account of a ctoken account
\* of the input is the unchanged input account.
C10_OrderPreserved ==
    Resolved =>
        LET in == digest.input
            out == digest.result
        IN /\ \A k \in 1..Len(out) : \E m \in 1..Len(in) : in[m].id = out[k].id
           /\ \A k, l \in 1..Len(out) :
                 k < l => PosOf(out[k].id) < PosOf(out[l].id)
           /\ \A m \in 1..Len(in) :
                 CompoundFor(in[m].token.id) = "" =>
                    \E k \in 1..Len(out) : out[k].id = in[m].id
           /\ \A m \in 1..Len(in) :
                 (/\ CompoundFor(in[m].token.id) = ""
                  /\ \A x \in Range(in) : CompoundFor(x.token.id) # in[m].token.id)
                    => in[m] \in Range(out)

\* Two merges returned in the reverse of their order in the input.
C10_Witness ==
    /\ Resolved /\ GateOn
    /\ Len(digest.result) = 2
    /\ \E k, l \in 1..Len(digest.order) :
         /\ k < l
         /\ digest.order[k] > digest.order[l]
         /\ {digest.order[k], digest.order[l]} \subseteq Merged

\* C11: the spendable balance of a merged account is the balance the
\* underlying account had before the merge (line 157), whatever the ctoken
\* account's balance and the rate read from the snapshot: the converted
\* amount is added to the balance only.
C11_SpendableIsUnderlyingBalance ==
    Resolved =>
        \A i \in Merged :
            LET a == digest.input[i]
                merged == Get(digest.data[i])
            IN /\ merged.spendableBalance = a.balance
               /\ merged \in Range(digest.result)

\* A merge with a positive converted amount, of an underlying account whose
\* own spendable balance was below its balance.
C11_Witness ==
    /\ Resolved /\ GateOn
    /\ \E i \in Merged :
         LET a == digest.input[i]
             merged == Get(digest.data[i])
         IN /\ DerivativeAccountOf(a).balance > 0
            /\ digest.locals[i].latestRate.m > 0
            /\ merged.balance > a.balance
            /\ a.spendableBalance < a.balance
            /\ merged.spendableBalance = a.balance

====
